---- MODULE Spec2Model ----
(***************************************************************************)
(* PlacementTracker: the PO-mail viewer (src/public/app.js), the mail      *)
(* fetcher with its extraction and persistence stages                      *)
(* (src/unnamed/part_001) and the query endpoint (src/server.js,           *)
(* src/unnamed/part_000).                                                  *)
(*                                                                         *)
(* Conventions of the model                                                *)
(*  - A JavaScript string is a TLA+ string.  Where the code looks inside   *)
(*    a string (toLowerCase, trim, includes, new Date) the characters come *)
(*    from the table Chars and the calendar fields from the table          *)
(*    Calendar, which list the strings the model uses.                     *)
(*  - An absent extracted field (null on the wire) is "" in a client       *)
(*    record: the client reads every field through `x || default` or       *)
(*    filter(Boolean), which treat null and "" alike.                      *)
(*  - A Date is a record [ok, y, m, d]; ok = FALSE is the Invalid Date.    *)
(*    Local time is taken to be UTC.  getTime() is a day count that keeps  *)
(*    the order of the instants (the code only compares and subtracts).    *)
(*  - A number that may be NaN is a record [nan, v].                       *)
(*  - A mail body, and every text the extraction stage works on, is a      *)
(*    sequence of one-character strings; an optional string is a record    *)
(*    [some, s], and a match of a pattern a record [found, at, from, to].  *)
(***************************************************************************)
EXTENDS Integers, Sequences, FiniteSets, TLC

VARIABLES
    data,               \* useState([])            app.js:35
    meta,               \* useState({count, generatedAt})  app.js:36
    loading,            \* useState(true)          app.js:37
    error,              \* useState("")            app.js:38
    query,              \* useState("")            app.js:39
    selectedId,         \* useState("")            app.js:40
    openMonths,         \* useState({})            app.js:41
    selectedGroupKey,   \* useState("")            app.js:42
    selectedGroupItems, \* useState([])            app.js:43
    supportYear,        \* useState("All")         app.js:44
    supportMonth,       \* useState("All")         app.js:45
    yearChosen,         \* history: the value of the user's last year click, "" before any
    monthChosen,        \* history: the value of the user's last month choice, "" before any
    body,               \* the HTML body handed to htmlToText (a list of characters, or Null)
    extracted,          \* what htmlToText returned for body, Pending before the call
    universe,           \* the records the mail server may return in this run
    loads,              \* history: the loads in flight and how the last one ended
    collection,         \* the documents of the po_mails collection, in insertion order
    fetched,            \* history: per message id, the record of its latest stored fetch
    request             \* history: the last request to /api/po-mails and what was sent for it

vars == <<data, meta, loading, error, query, selectedId, openMonths,
          selectedGroupKey, selectedGroupItems, supportYear, supportMonth,
          yearChosen, monthChosen, body, extracted, universe, loads,
          collection, fetched, request>>

\* the state of the server side
serverVars == <<collection, fetched, request>>

(***************************************************************************)
(* Bounds                                                                  *)
(***************************************************************************)
\* the longest item list one response of /api/po-mails carries
MaxItems == 3

(***************************************************************************)
(* Sequences                                                               *)
(***************************************************************************)
Range(s) == {s[i] : i \in 1..Len(s)}

SeqsUpTo(S, n) == UNION {[1..k -> S] : k \in 0..n}

\* the index of the first element of s satisfying key = k, 0 when none
IndexOfKey(keys, k) ==
    IF \E i \in 1..Len(keys) : keys[i] = k
    THEN CHOOSE i \in 1..Len(keys) : keys[i] = k /\ \A j \in 1..(i - 1) : keys[j] # k
    ELSE 0

(***************************************************************************)
(* Array.prototype.sort.  cmp[i][j] is the comparator's result on the      *)
(* elements at positions i and j after SortCompare has turned NaN into +0. *)
(* With a comparator that orders the elements consistently the sort is     *)
(* stable (ES2019).  With one that does not, ECMAScript leaves the order   *)
(* to the implementation: every permutation is an outcome.  Consistency is *)
(* judged on pairs of distinct positions, the only pairs an implementation *)
(* compares.                                                               *)
(***************************************************************************)
Sign(x) == IF x < 0 THEN -1 ELSE IF x > 0 THEN 1 ELSE 0

ConsistentComparator(s, cmp) ==
    LET n == Len(s) IN
    /\ \A i, j \in 1..n : i # j => Sign(cmp[i][j]) = -Sign(cmp[j][i])
    /\ \A i, j, k \in 1..n :
          (i # j /\ j # k /\ i # k /\ cmp[i][j] <= 0 /\ cmp[j][k] <= 0)
              => /\ cmp[i][k] <= 0
                 /\ (cmp[i][j] < 0 \/ cmp[j][k] < 0) => cmp[i][k] < 0

StableSort(s, cmp) ==
    LET n == Len(s)
        Before(j, k) == cmp[j][k] < 0 \/ (cmp[j][k] = 0 /\ j < k)
        Rank(k) == 1 + Cardinality({j \in (1..n) \ {k} : Before(j, k)})
    IN  [i \in 1..n |-> s[CHOOSE k \in 1..n : Rank(k) = i]]

AllOrders(s) ==
    LET n == Len(s) IN
    {[i \in 1..n |-> s[p[i]]] : p \in {q \in [1..n -> 1..n] : \A a, b \in 1..n : q[a] = q[b] => a = b}}

SortOutcomes(s, cmp) ==
    IF ConsistentComparator(s, cmp) THEN {StableSort(s, cmp)} ELSE AllOrders(s)

(***************************************************************************)
(* Strings the client looks inside                                         *)
(***************************************************************************)
Chars ==
    ("" :> <<>>) @@
    ("Al" :> <<"A", "l">>) @@
    ("Bo" :> <<"B", "o">>) @@
    ("PO" :> <<"P", "O">>) @@
    ("Acme" :> <<"A", "c", "m", "e">>) @@
    ("NY" :> <<"N", "Y">>) @@
    ("Sue" :> <<"S", "u", "e">>) @@
    ("Tom" :> <<"T", "o", "m">>) @@
    ("n/a" :> <<"n", "/", "a">>) @@
    ("2023-12-05" :> <<"2", "0", "2", "3", "-", "1", "2", "-", "0", "5">>) @@
    ("2024-02-10" :> <<"2", "0", "2", "4", "-", "0", "2", "-", "1", "0">>) @@
    ("2024-03-01" :> <<"2", "0", "2", "4", "-", "0", "3", "-", "0", "1">>) @@
    ("2024-03-02" :> <<"2", "0", "2", "4", "-", "0", "3", "-", "0", "2">>) @@
    (" AL " :> <<" ", "A", "L", " ">>) @@
    ("12-" :> <<"1", "2", "-">>) @@
    ("zz" :> <<"z", "z">>)

UpperToLower ==
    ("A" :> "a") @@ ("B" :> "b") @@ ("C" :> "c") @@ ("D" :> "d") @@ ("E" :> "e") @@ ("F" :> "f") @@
    ("G" :> "g") @@ ("H" :> "h") @@ ("I" :> "i") @@ ("J" :> "j") @@ ("K" :> "k") @@ ("L" :> "l") @@
    ("M" :> "m") @@ ("N" :> "n") @@ ("O" :> "o") @@ ("P" :> "p") @@ ("Q" :> "q") @@ ("R" :> "r") @@
    ("S" :> "s") @@ ("T" :> "t") @@ ("U" :> "u") @@ ("V" :> "v") @@ ("W" :> "w") @@ ("X" :> "x") @@
    ("Y" :> "y") @@ ("Z" :> "z")

UpperLetters == DOMAIN UpperToLower

LowerLetters == {UpperToLower[c] : c \in UpperLetters}

Digits == {"0", "1", "2", "3", "4", "5", "6", "7", "8", "9"}

\* String.prototype.toLowerCase, on one character
LowerChar(c) == IF c \in UpperLetters THEN UpperToLower[c] ELSE c

ToLowerCase(cs) == [i \in 1..Len(cs) |-> LowerChar(cs[i])]

\* U+00A0, the no-break space
NBSP == "nbsp"

\* the characters the class \s matches and trim removes
IsSpaceChar(c) == c \in {" ", "\t", "\n", NBSP}

\* String.prototype.trim
Trim(cs) ==
    LET solid == {i \in 1..Len(cs) : ~IsSpaceChar(cs[i])} IN
    IF solid = {} THEN <<>>
    ELSE SubSeq(cs, CHOOSE i \in solid : \A j \in solid : i <= j,
                    CHOOSE i \in solid : \A j \in solid : i >= j)

\* String.prototype.includes
Includes(h, q) == \E i \in 0..(Len(h) - Len(q)) : SubSeq(h, i + 1, i + Len(q)) = q

\* Array.prototype.join(" ") over the characters of the given strings
RECURSIVE JoinSpace(_)
JoinSpace(strs) ==
    IF strs = <<>> THEN <<>>
    ELSE IF Len(strs) = 1 THEN Chars[strs[1]]
    ELSE Chars[strs[1]] \o <<" ">> \o JoinSpace(Tail(strs))

(***************************************************************************)
(* Regular expressions, as the extractor uses them (part_001:74-134).      *)
(* A text is its list of characters.  Every pattern has the flag i, so a   *)
(* literal is kept in lower case and compared with the lowered text.       *)
(***************************************************************************)
\* the literal parts of the patterns, by name
Lit ==
    [InterviewSupport |->
         <<"i", "n", "t", "e", "r", "v", "i", "e", "w", " ", "s", "u", "p", "p", "o", "r", "t">>,
     SupportBy |->
         <<"s", "u", "p", "p", "o", "r", "t", " ", "b", "y">>,
     MarketingApplication |->
         <<"m", "a", "r", "k", "e", "t", "i", "n", "g", " ", "a", "p", "p", "l", "i", "c", "a", "t", "i", "o", "n">>,
     Thanks |->
         <<"t", "h", "a", "n", "k", "s">>,
     NameOfCandidate |->
         <<"n", "a", "m", "e", " ", "o", "f", " ", "c", "a", "n", "d", "i", "d", "a", "t", "e", ":">>,
     SST |->
         <<"s", "s", "t">>,
     Location |->
         <<"l", "o", "c", "a", "t", "i", "o", "n">>,
     PO |->
         <<"p", "o">>,
     PersonalPhoneNumber |->
         <<"p", "e", "r", "s", "o", "n", "a", "l", " ", "p", "h", "o", "n", "e", " ", "n", "u", "m", "b", "e", "r">>,
     EmailID |->
         <<"e", "m", "a", "i", "l", " ", "i", "d">>,
     PositionThatApplied |->
         <<"p", "o", "s", "i", "t", "i", "o", "n", " ", "t", "h", "a", "t", " ", "a", "p", "p", "l", "i", "e", "d", ":">>,
     JobLocation |->
         <<"j", "o", "b", " ", "l", "o", "c", "a", "t", "i", "o", "n">>,
     JobLocationColon |->
         <<"j", "o", "b", " ", "l", "o", "c", "a", "t", "i", "o", "n", ":">>,
     ImplementationEndClient |->
         <<"i", "m", "p", "l", "e", "m", "e", "n", "t", "a", "t", "i", "o", "n", "/", "e", "n", "d", " ", "c", "l", "i", "e", "n", "t">>,
     VendorDetails |->
         <<"v", "e", "n", "d", "o", "r", " ", "d", "e", "t", "a", "i", "l", "s">>,
     Rate |->
         <<"r", "a", "t", "e", ":">>,
     TeamLead |->
         <<"t", "e", "a", "m", " ", "l", "e", "a", "d">>,
     Manager |->
         <<"m", "a", "n", "a", "g", "e", "r">>,
     Marketing |->
         <<"m", "a", "r", "k", "e", "t", "i", "n", "g">>,
     ScriptOpen |->
         <<"<", "s", "c", "r", "i", "p", "t">>,
     ScriptClose |->
         <<"<", "/", "s", "c", "r", "i", "p", "t", ">">>,
     StyleOpen |->
         <<"<", "s", "t", "y", "l", "e">>,
     StyleClose |->
         <<"<", "/", "s", "t", "y", "l", "e", ">">>,
     NbspEntity |->
         <<"&", "n", "b", "s", "p", ";">>]

IsLetter(c) == c \in UpperLetters \/ c \in LowerLetters

\* [A-Za-z\s]
IsLetterOrSpace(c) == IsLetter(c) \/ IsSpaceChar(c)

\* . (any character but a line terminator)
IsAnyChar(c) == c # "\n"

\* [\+\d\(\)\-\.\s]
IsPhoneChar(c) == c \in Digits \/ c \in {"+", "(", ")", "-", "."} \/ IsSpaceChar(c)

\* [0-9,\.kK\/\sA-Za-z]
IsRateChar(c) == c \in Digits \/ c \in {",", ".", "/"} \/ IsSpaceChar(c) \/ IsLetter(c)

\* [A-Za-z0-9._%+-]
IsEmailLocalChar(c) == IsLetter(c) \/ c \in Digits \/ c \in {".", "_", "%", "+", "-"}

\* [A-Za-z0-9.-]
IsEmailDomainChar(c) == IsLetter(c) \/ c \in Digits \/ c \in {".", "-"}

\* the character classes of the patterns, by name
InClass(class, c) ==
    CASE class = "letter" -> IsLetter(c)
      [] class = "letterOrSpace" -> IsLetterOrSpace(c)
      [] class = "any" -> IsAnyChar(c)
      [] class = "phone" -> IsPhoneChar(c)
      [] class = "rate" -> IsRateChar(c)
      [] class = "emailLocal" -> IsEmailLocalChar(c)
      [] class = "emailDomain" -> IsEmailDomainChar(c)

\* the literal lit stands at position p of t
LitAt(t, p, lit) ==
    /\ p + Len(lit) - 1 <= Len(t)
    /\ \A x \in 1..Len(lit) : LowerChar(t[p + x - 1]) = lit[x]

\* the length of the run of white space that starts at position p of t
SpaceRun(t, p) ==
    CHOOSE k \in 0..(Len(t) - p + 1) :
        /\ \A x \in 0..(k - 1) : IsSpaceChar(t[p + x])
        /\ (p + k > Len(t) \/ ~IsSpaceChar(t[p + k]))

\* a lookahead alternative: the literal, after \s+ when ws
Alt(ws, lit) == [ws |-> ws, lit |-> lit]

\* (?=alt1|alt2|...) at position e, with the alternative $ when atEnd
LookaheadAt(t, e, alts, atEnd) ==
    \/ atEnd /\ e = Len(t) + 1
    \/ \E a \in alts :
          IF a.ws THEN \E j \in 1..SpaceRun(t, e) : LitAt(t, e + j, a.lit)
          ELSE LitAt(t, e, a.lit)

\* what follows the capture group: \s+ when trail, then the lookahead
TailAt(t, e, trail, alts, atEnd) ==
    IF trail THEN \E j \in 1..SpaceRun(t, e) : LookaheadAt(t, e + j, alts, atEnd)
    ELSE LookaheadAt(t, e, alts, atEnd)

\* a match: the position the pattern was tried at, and the group
NoMatch == [found |-> FALSE, at |-> 0, from |-> 0, to |-> 0]

\* v comes before u in the order of the tuples, first component first
LexGreater(v, u) == \E k \in 1..Len(v) : v[k] > u[k] /\ \A j \in 1..(k - 1) : v[j] = u[j]

\* The match the backtracking matcher settles on among the ways the pattern
\* can match at one position.  A way is <<lengths, from, to>>: the lengths its
\* quantifiers take, in the order of the pattern, and the group.  Each greedy
\* quantifier keeps the most it can while the rest still matches, so the way
\* with the greatest tuple wins; a lazy quantifier has its length negated.
BacktrackChoice(at, ways) ==
    IF ways = {} THEN NoMatch
    ELSE LET w == CHOOSE v \in ways : \A u \in ways : u = v \/ LexGreater(v[1], u[1])
         IN  [found |-> TRUE, at |-> at, from |-> w[2], to |-> w[3]]

\* String.prototype.match without the flag g: of the matches at the positions
\* tried, the one at the leftmost position
Leftmost(matches) ==
    IF \A m \in matches : ~m.found THEN NoMatch
    ELSE CHOOSE m \in matches : m.found /\ \A k \in matches : k.found => m.at <= k.at

\* The match of   lit \s* \$? ( class{min,max} ) tail   at position i, where
\* spaces and dollar tell whether the pattern has \s* and \$? at all: \s* is
\* greedy, \$? is greedy, the group is lazy or greedy
MatchAt(t, i, lit, spaces, dollar, class, min, max, lazy, trail, alts, atEnd) ==
    BacktrackChoice(i,
        IF ~LitAt(t, i, lit) THEN {}
        ELSE {<<<<w[1], w[2], IF lazy THEN -w[3] ELSE w[3]>>,
                i + Len(lit) + w[1] + w[2],
                i + Len(lit) + w[1] + w[2] + w[3] - 1>> :
                 w \in {v \in (0..(IF spaces THEN SpaceRun(t, i + Len(lit)) ELSE 0))
                                 \X {0, 1} \X (min..max) :
                           /\ v[2] = 1 => /\ dollar
                                          /\ i + Len(lit) + v[1] <= Len(t)
                                          /\ t[i + Len(lit) + v[1]] = "$"
                           /\ i + Len(lit) + v[1] + v[2] + v[3] - 1 <= Len(t)
                           /\ \A x \in 0..(v[3] - 1) :
                                 InClass(class, t[i + Len(lit) + v[1] + v[2] + x])
                           /\ TailAt(t, i + Len(lit) + v[1] + v[2] + v[3], trail, alts,
                                     atEnd)}})

\* a pattern that begins with ^ is tried at position 1 only
Match(t, anchored, lit, spaces, dollar, class, min, max, lazy, trail, alts, atEnd) ==
    Leftmost({MatchAt(t, i, lit, spaces, dollar, class, min, max, lazy, trail, alts, atEnd) :
                 i \in IF anchored THEN {1} ELSE 1..Len(t)})

\* an optional string: null, or the characters
Null == [some |-> FALSE, s |-> <<>>]

Str(cs) == [some |-> TRUE, s |-> cs]

\* find, part_001:77-80: match ? match[1].trim() : null
Find(t, m) == IF m.found THEN Str(Trim(SubSeq(t, m.from, m.to))) ELSE Null

(***************************************************************************)
(* normalizeText, part_001:67-72                                           *)
(***************************************************************************)
\* .replace(/\s+/g, " "): every run of white space becomes one space
CollapseSpaces(t) ==
    LET kept == SelectSeq([i \in 1..Len(t) |-> i],
                          LAMBDA i : ~IsSpaceChar(t[i]) \/ i = 1 \/ ~IsSpaceChar(t[i - 1]))
    IN  [k \in 1..Len(kept) |-> IF IsSpaceChar(t[kept[k]]) THEN " " ELSE t[kept[k]]]

normalizeText(t) ==
    Trim(CollapseSpaces([i \in 1..Len(t) |-> IF t[i] = NBSP THEN " " ELSE t[i]]))

(***************************************************************************)
(* extractPoDetails, part_001:74-123                                       *)
(***************************************************************************)
\* the length of the run of characters of class that starts at position p of t
ClassRun(t, p, class) ==
    CHOOSE k \in 0..(Len(t) - p + 1) :
        /\ \A x \in 0..(k - 1) : InClass(class, t[p + x])
        /\ (p + k > Len(t) \/ ~InClass(class, t[p + k]))

\* /Email ID\s*([A-Za-z0-9._%+-]+@[A-Za-z0-9.-]+\.[A-Za-z]{2,})/i at position i:
\* \s*, the local part and the domain are greedy, in this order, and the
\* letters after the last dot are all the letters there are
EmailAt(t, i) ==
    BacktrackChoice(i,
        IF ~LitAt(t, i, Lit.EmailID) THEN {}
        ELSE {<<w, i + Len(Lit.EmailID) + w[1],
                i + Len(Lit.EmailID) + w[1] + w[2] + 1 + w[3]
                    + ClassRun(t, i + Len(Lit.EmailID) + w[1] + w[2] + w[3] + 2, "letter")>> :
                 w \in {v \in (0..SpaceRun(t, i + Len(Lit.EmailID)))
                                 \X (1..Len(t)) \X (1..Len(t)) :
                           /\ i + Len(Lit.EmailID) + v[1] + v[2] + v[3] + 1 <= Len(t)
                           /\ t[i + Len(Lit.EmailID) + v[1] + v[2]] = "@"
                           /\ t[i + Len(Lit.EmailID) + v[1] + v[2] + v[3] + 1] = "."
                           /\ \A x \in 0..(v[2] - 1) :
                                 InClass("emailLocal", t[i + Len(Lit.EmailID) + v[1] + x])
                           /\ \A x \in 1..v[3] :
                                 InClass("emailDomain",
                                         t[i + Len(Lit.EmailID) + v[1] + v[2] + x])
                           /\ ClassRun(t, i + Len(Lit.EmailID) + v[1] + v[2] + v[3] + 2,
                                       "letter") >= 2}})

EmailMatch(t) == Leftmost({EmailAt(t, i) : i \in 1..Len(t)})

NoAlts == {Alt(FALSE, <<>>)}

\* /Interview Support\s*Support by\s*(.+?)(?=\s+Marketing Application|\s+Thanks|$)/i
\* The first literal and its \s* are matched here, the rest by MatchAt
InterviewMatch(t) ==
    Leftmost({[MatchAt(t, i + Len(Lit.InterviewSupport)
                              + SpaceRun(t, i + Len(Lit.InterviewSupport)),
                       Lit.SupportBy, TRUE, FALSE, "any", 1, Len(t), TRUE, FALSE,
                       {Alt(TRUE, Lit.MarketingApplication), Alt(TRUE, Lit.Thanks)}, TRUE)
                  EXCEPT !.at = i] :
                 i \in {j \in 1..Len(t) : LitAt(t, j, Lit.InterviewSupport)}})

\* the group of a match, the empty string without one
Group(t, m) == IF m.found THEN SubSeq(t, m.from, m.to) ELSE <<>>

\* interviewSection || "", part_001:83-89
InterviewSection(text) == Group(text, InterviewMatch(text))

FieldNames ==
    {"candidate_name", "phone_number", "email", "location", "position_applied",
     "job_location", "end_client", "rate", "interview_support_by", "team_lead", "manager"}

\* /^([A-Za-z\s]+?)(?=\s+Team Lead)/i on the section
SupportByOf(section) ==
    Find(section, Match(section, TRUE, <<>>, FALSE, FALSE, "letterOrSpace", 1, Len(section),
                        TRUE, FALSE, {Alt(TRUE, Lit.TeamLead)}, FALSE))

\* /Team Lead\s*([A-Za-z\s]+?)(?=\s+Manager)/i on the section
TeamLeadOf(section) ==
    Find(section, Match(section, FALSE, Lit.TeamLead, TRUE, FALSE, "letterOrSpace", 1,
                        Len(section), TRUE, FALSE, {Alt(TRUE, Lit.Manager)}, FALSE))

\* /Manager\s*([A-Za-z\s]+?)(?=\s+Marketing|$)/i
ManagerIn(src) ==
    Find(src, Match(src, FALSE, Lit.Manager, TRUE, FALSE, "letterOrSpace", 1, Len(src),
                    TRUE, FALSE, {Alt(TRUE, Lit.Marketing)}, TRUE))

\* the manager looked for in the whole text instead of the section
ManagerOfWholeText(text, section) == ManagerIn(text)

\* manager: find(/Manager.../i, interviewSection || ""), part_001:118-121
ManagerOf(text, section) == ManagerIn(section)

\* text and interviewSection are computed once and the patterns applied to them
extractPoDetails(inputText) ==
    LET Details(text, section, n) ==
            [candidate_name |->
                Find(text, Match(text, FALSE, Lit.NameOfCandidate, TRUE, FALSE, "letterOrSpace",
                                 1, n, TRUE, TRUE,
                                 {Alt(FALSE, Lit.SST), Alt(FALSE, Lit.Location), Alt(FALSE, Lit.PO)},
                                 FALSE)),
             phone_number |->
                Find(text, Match(text, FALSE, Lit.PersonalPhoneNumber, TRUE, FALSE, "phone",
                                 1, n, FALSE, FALSE, NoAlts, FALSE)),
             email |-> Find(text, EmailMatch(text)),
             location |->
                Find(text, Match(text, FALSE, Lit.Location, TRUE, FALSE, "letter", 2, 3, FALSE,
                                 FALSE, NoAlts, FALSE)),
             position_applied |->
                Find(text, Match(text, FALSE, Lit.PositionThatApplied, TRUE, FALSE, "any",
                                 1, n, TRUE, FALSE, {Alt(TRUE, Lit.JobLocation)}, FALSE)),
             job_location |->
                Find(text, Match(text, FALSE, Lit.JobLocationColon, TRUE, FALSE, "any",
                                 1, n, TRUE, FALSE, {Alt(TRUE, Lit.ImplementationEndClient)},
                                 FALSE)),
             end_client |->
                Find(text, Match(text, FALSE, Lit.ImplementationEndClient, TRUE, FALSE, "any",
                                 1, n, TRUE, FALSE,
                                 {Alt(TRUE, Lit.VendorDetails), Alt(TRUE, Lit.Rate)}, FALSE)),
             rate |->
                Find(text, Match(text, FALSE, Lit.Rate, TRUE, TRUE, "rate", 1, n, FALSE,
                                 FALSE, NoAlts, FALSE)),
             interview_support_by |-> SupportByOf(section),
             team_lead |-> TeamLeadOf(section),
             manager |-> ManagerOf(text, section)]
        sources == {<<t, InterviewSection(t)>> : t \in {normalizeText(inputText)}}
    IN  CHOOSE r \in {Details(src[1], src[2], Len(src[1])) : src \in sources} : TRUE

(***************************************************************************)
(* htmlToText, part_001:125-134                                            *)
(***************************************************************************)
\* the position of the first occurrence of lit in t at or after p, 0 when none
FirstLitFrom(t, p, lit) ==
    LET at == {q \in p..Len(t) : LitAt(t, q, lit)} IN
    IF at = {} THEN 0 ELSE CHOOSE q \in at : \A r \in at : q <= r

\* .replace(/<open[\s\S]*?<\/close>/gi, " ") for a script or style block: the
\* leftmost block goes, then the blocks of what follows it
RECURSIVE StripBlocks(_, _, _)
StripBlocks(t, open, close) ==
    LET starts == {q \in 1..Len(t) :
                      LitAt(t, q, open) /\ FirstLitFrom(t, q + Len(open), close) # 0}
    IN  IF starts = {} THEN t
        ELSE LET q == CHOOSE x \in starts : \A y \in starts : x <= y
                 end == FirstLitFrom(t, q + Len(open), close)
             IN  SubSeq(t, 1, q - 1) \o <<" ">>
                     \o StripBlocks(SubSeq(t, end + Len(close), Len(t)), open, close)

\* .replace(/<\/?[^>]+>/g, " "): a tag runs from a "<" to the first ">" after
\* it that leaves at least one character between them
RECURSIVE StripTags(_)
StripTags(t) ==
    LET starts == {q \in 1..(Len(t) - 1) :
                      t[q] = "<" /\ t[q + 1] # ">" /\ FirstLitFrom(t, q + 2, <<">">>) # 0}
    IN  IF starts = {} THEN t
        ELSE LET q == CHOOSE x \in starts : \A y \in starts : x <= y
                 end == FirstLitFrom(t, q + 2, <<">">>)
             IN  SubSeq(t, 1, q - 1) \o <<" ">> \o StripTags(SubSeq(t, end + 1, Len(t)))

\* .replace(/&nbsp;/gi, " ")
RECURSIVE StripNbspEntities(_)
StripNbspEntities(t) ==
    LET q == FirstLitFrom(t, 1, Lit.NbspEntity) IN
    IF q = 0 THEN t
    ELSE SubSeq(t, 1, q - 1) \o <<" ">>
             \o StripNbspEntities(SubSeq(t, q + Len(Lit.NbspEntity), Len(t)))

\* a body that is null (the mail has no body content)
NullBody == <<"null">>

\* what htmlToText returns: the empty string, or the record of the eleven fields
EmptyString == [kind |-> "string", fields |-> [f \in FieldNames |-> Null]]

Fields(fs) == [kind |-> "fields", fields |-> fs]

\* const text = normalizeText(stripped), part_001:127-132
\* Each replace works on the value the one before it returned: the values are
\* held as one-element sets so that each is computed once
StrippedText(htmlContent) ==
    LET noScript == {StripBlocks(htmlContent, Lit.ScriptOpen, Lit.ScriptClose)}
        noStyle == {StripBlocks(t, Lit.StyleOpen, Lit.StyleClose) : t \in noScript}
        noTags == {StripTags(t) : t \in noStyle}
        stripped == {StripNbspEntities(t) : t \in noTags}
    IN  CHOOSE text \in {normalizeText(t) : t \in stripped} : TRUE

htmlToText(htmlContent) ==
    IF htmlContent = NullBody \/ htmlContent = <<>> THEN EmptyString
    ELSE Fields(extractPoDetails(StrippedText(htmlContent)))

(***************************************************************************)
(* Dates                                                                   *)
(***************************************************************************)
Calendar ==
    ("2023-12-05" :> <<2023, 12, 5>>) @@
    ("2024-02-10" :> <<2024, 2, 10>>) @@
    ("2024-03-01" :> <<2024, 3, 1>>) @@
    ("2024-03-02" :> <<2024, 3, 2>>)

InvalidDate == [ok |-> FALSE, y |-> 0, m |-> 0, d |-> 0]

\* new Date(0)
EpochDate == [ok |-> TRUE, y |-> 1970, m |-> 1, d |-> 1]

\* new Date(value) for a string value: a string that is no date gives the Invalid Date
NewDate(value) ==
    IF value \in DOMAIN Calendar
    THEN [ok |-> TRUE, y |-> Calendar[value][1], m |-> Calendar[value][2], d |-> Calendar[value][3]]
    ELSE InvalidDate

\* new Date(value || 0)
NewDateOrZero(value) == IF value = "" THEN EpochDate ELSE NewDate(value)

NaN == [nan |-> TRUE, v |-> 0]

Num(n) == [nan |-> FALSE, v |-> n]

\* Date.prototype.getTime, in days
GetTime(date) ==
    IF date.ok THEN Num(((date.y - 1970) * 12 + (date.m - 1)) * 31 + (date.d - 1)) ELSE NaN

\* Number.isNaN(date.getTime())
IsNaNDate(date) == GetTime(date).nan

\* b > a on numbers
NumGt(b, a) == ~b.nan /\ ~a.nan /\ b.v > a.v

\* a - b on numbers, as the comparator result SortCompare sees (NaN becomes +0)
NumMinus(a, b) == IF a.nan \/ b.nan THEN 0 ELSE a.v - b.v

Pad2(n) ==
    CASE n = 1 -> "01" [] n = 2 -> "02" [] n = 3 -> "03" [] n = 4 -> "04"
      [] n = 5 -> "05" [] n = 6 -> "06" [] n = 7 -> "07" [] n = 8 -> "08"
      [] n = 9 -> "09" [] n = 10 -> "10" [] n = 11 -> "11" [] n = 12 -> "12"

MonthName(n) ==
    CASE n = 1 -> "January" [] n = 2 -> "February" [] n = 3 -> "March"
      [] n = 4 -> "April" [] n = 5 -> "May" [] n = 6 -> "June" [] n = 7 -> "July"
      [] n = 8 -> "August" [] n = 9 -> "September" [] n = 10 -> "October"
      [] n = 11 -> "November" [] n = 12 -> "December"

\* a month label is <<month name, year>>, the two parts toLocaleString prints
UnknownMonth == <<"Unknown Month", 0>>

formatMonth(value) ==
    IF value = "" THEN UnknownMonth
    ELSE LET date == NewDate(value) IN
         IF IsNaNDate(date) THEN UnknownMonth
         ELSE <<MonthName(date.m), date.y>>

\* a sort key `${y}-${m}` is <<y, m>>, and "0000-00" is <<0, 0>>: with four-digit
\* years and two-digit months the strings compare as the pairs do
UnknownSortKey == <<0, 0>>

\* monthSortKey reading the date as the statistics do, new Date(value || 0)
monthSortKeyOrZero(value) ==
    LET date == NewDateOrZero(value) IN
    IF IsNaNDate(date) THEN UnknownSortKey
    ELSE <<date.y, date.m>>

monthSortKey(value) ==
    LET date == NewDate(value) IN
    IF IsNaNDate(date) THEN UnknownSortKey
    ELSE <<date.y, date.m>>

\* a.sortKey < b.sortKey on the strings
SortKeyLess(a, b) == a[1] < b[1] \/ (a[1] = b[1] /\ a[2] < b[2])

(***************************************************************************)
(* Records                                                                 *)
(***************************************************************************)
MailId(i) ==
    CASE i = 1 -> "m1" [] i = 2 -> "m2" [] i = 3 -> "m3" [] i = 4 -> "m4"
      [] i = 5 -> "m5" [] OTHER -> "m6"

\* one item of the response, before the server has put its id on it
Mail(ts, cand, subj, endc, job, sup) ==
    [subject |-> subj,
     from |-> [name |-> "", address |-> ""],
     receivedDateTime |-> ts,
     extracted |-> [candidate_name |-> cand, email |-> "", location |-> "",
                    job_location |-> job, end_client |-> endc, rate |-> "",
                    interview_support_by |-> sup]]

\* the items of a response: message ids are unique
WithIds(mails) == [i \in 1..Len(mails) |-> [id |-> MailId(i)] @@ mails[i]]

\* Array.prototype.filter(Boolean) on strings
FilterBoolean(strs) == SelectSeq(strs, LAMBDA x : x # "")

(***************************************************************************)
(* filtered, app.js:72-93                                                  *)
(***************************************************************************)
Haystack(item) ==
    ToLowerCase(JoinSpace(FilterBoolean(
        <<item.subject, item.from.name, item.from.address, item.receivedDateTime,
          item.extracted.candidate_name, item.extracted.email, item.extracted.location,
          item.extracted.job_location, item.extracted.end_client, item.extracted.rate>>)))

Filtered(items, qry) ==
    LET q == ToLowerCase(Trim(Chars[qry])) IN
    IF q = <<>> THEN items
    ELSE SelectSeq(items, LAMBDA item : Includes(Haystack(item), q))

filtered == Filtered(data, query)

(***************************************************************************)
(* grouped, app.js:96-130                                                  *)
(***************************************************************************)
\* the Map monthBuckets, as the list of its entries in insertion order
RECURSIVE MonthBuckets(_, _)
MonthBuckets(items, acc) ==
    IF items = <<>> THEN acc
    ELSE LET item == Head(items)
             monthKey == formatMonth(item.receivedDateTime)
             sortKey == monthSortKey(item.receivedDateTime)
             at == IndexOfKey([i \in 1..Len(acc) |-> acc[i].monthKey], monthKey)
             acc1 == IF at = 0
                     THEN Append(acc, [monthKey |-> monthKey, sortKey |-> sortKey, items |-> <<>>])
                     ELSE acc
             at1 == IF at = 0 THEN Len(acc1) ELSE at
         IN  MonthBuckets(Tail(items),
                          [acc1 EXCEPT ![at1].items = Append(@, item)])

\* the comparator with its branches exchanged: oldest month first
MonthComparatorAscending(a, b) == IF SortKeyLess(a.sortKey, b.sortKey) THEN -1 ELSE 1

\* (a, b) => (a[1].sortKey < b[1].sortKey ? 1 : -1)
MonthComparator(a, b) == IF SortKeyLess(a.sortKey, b.sortKey) THEN 1 ELSE -1

\* the key without its subject fallback
candidateKeyNoSubject(item) ==
    IF item.extracted.candidate_name # "" THEN item.extracted.candidate_name
    ELSE "Untitled"

candidateKeyOf(item) ==
    IF item.extracted.candidate_name # "" THEN item.extracted.candidate_name
    ELSE IF item.subject # "" THEN item.subject
    ELSE "Untitled"

\* the Map candidateBuckets, as the list of its entries in insertion order
RECURSIVE CandidateBuckets(_, _)
CandidateBuckets(items, acc) ==
    IF items = <<>> THEN acc
    ELSE LET item == Head(items)
             candidateKey == candidateKeyOf(item)
             at == IndexOfKey([i \in 1..Len(acc) |-> acc[i].key], candidateKey)
             acc1 == IF at = 0
                     THEN Append(acc, [key |-> candidateKey, displayName |-> candidateKey,
                                       items |-> <<>>])
                     ELSE acc
             at1 == IF at = 0 THEN Len(acc1) ELSE at
         IN  CandidateBuckets(Tail(items), [acc1 EXCEPT ![at1].items = Append(@, item)])

SortedMonthBuckets(items) ==
    LET entries == MonthBuckets(items, <<>>)
        n == Len(entries)
    IN  StableSort(entries,
                   [i \in 1..n |-> [j \in 1..n |-> MonthComparator(entries[i], entries[j])]])

Grouped(items) ==
    LET sorted == SortedMonthBuckets(items) IN
    [i \in 1..Len(sorted) |->
        [monthLabel |-> sorted[i].monthKey,
         groups |-> CandidateBuckets(sorted[i].items, <<>>)]]

grouped == Grouped(filtered)

(***************************************************************************)
(* latestPerCompany, app.js:212-233                                        *)
(***************************************************************************)
companyOf(item) ==
    IF item.extracted.end_client # "" THEN item.extracted.end_client
    ELSE IF item.extracted.job_location # "" THEN item.extracted.job_location
    ELSE "Unknown Company"

ReceivedTime(item) == GetTime(NewDateOrZero(item.receivedDateTime))

\* the comparison turned round: the older record replaces the newer
ReplacesOlder(b, a) == NumGt(a, b)

\* if (b > a) buckets.set(company, item)
Replaces(b, a) == NumGt(b, a)

\* the Map buckets, as the list of its entries in insertion order
RECURSIVE CompanyBuckets(_, _)
CompanyBuckets(items, acc) ==
    IF items = <<>> THEN acc
    ELSE LET item == Head(items)
             company == companyOf(item)
             at == IndexOfKey([i \in 1..Len(acc) |-> acc[i].company], company)
         IN  CompanyBuckets(Tail(items),
                 IF at = 0 THEN Append(acc, [company |-> company, item |-> item])
                 ELSE IF Replaces(ReceivedTime(item), ReceivedTime(acc[at].item))
                      THEN [acc EXCEPT ![at].item = item]
                      ELSE acc)

\* (a, b) => bDate - aDate
CompanyComparator(a, b) == NumMinus(ReceivedTime(b), ReceivedTime(a))

\* the lists latestPerCompany may return for items
latestPerCompany(items) ==
    LET buckets == CompanyBuckets(items, <<>>)
        values == [i \in 1..Len(buckets) |-> buckets[i].item]
        n == Len(values)
    IN  SortOutcomes(values,
                     [i \in 1..n |-> [j \in 1..n |-> CompanyComparator(values[i], values[j])]])

(***************************************************************************)
(* Support statistics, app.js:132-210                                      *)
(***************************************************************************)
\* String(date.getFullYear())
YearString(y) ==
    CASE y = 1970 -> "1970" [] y = 2023 -> "2023" [] y = 2024 -> "2024"

\* the test both supportCounts (app.js:135-141) and supportCandidates
\* (app.js:197-203) make before they count an item: FALSE is `continue`
PassesPeriod(item, year, month) ==
    LET date == NewDateOrZero(item.receivedDateTime) IN
    IF ~IsNaNDate(date)
    THEN /\ ~(year # "All" /\ YearString(date.y) # year)
         /\ ~(month # "All" /\ Pad2(date.m) # month)
    ELSE TRUE

supportNameOf(item) ==
    IF item.extracted.interview_support_by # "" THEN item.extracted.interview_support_by
    ELSE "Unknown"

supportCandidateOf(item) ==
    IF item.extracted.candidate_name # "" THEN item.extracted.candidate_name
    ELSE "Unknown"

\* the Map counts, as the list of its entries in insertion order
RECURSIVE CountBuckets(_, _, _, _)
CountBuckets(items, year, month, acc) ==
    IF items = <<>> THEN acc
    ELSE LET item == Head(items)
             name == supportNameOf(item)
             at == IndexOfKey([i \in 1..Len(acc) |-> acc[i].name], name)
         IN  CountBuckets(Tail(items), year, month,
                 IF ~PassesPeriod(item, year, month) THEN acc
                 ELSE IF at = 0 THEN Append(acc, [name |-> name, count |-> 1])
                 ELSE [acc EXCEPT ![at].count = @ + 1])

\* the subtraction turned round: smallest count first
CountComparatorAscending(a, b) == a.count - b.count

\* (a, b) => b[1] - a[1]
CountComparator(a, b) == b.count - a.count

SupportCounts(items, year, month) ==
    LET entries == CountBuckets(items, year, month, <<>>)
        n == Len(entries)
    IN  StableSort(entries,
                   [i \in 1..n |-> [j \in 1..n |-> CountComparator(entries[i], entries[j])]])

supportCounts == SupportCounts(filtered, supportYear, supportMonth)

\* the Map buckets of supportCandidates: expert -> Set of candidates
RECURSIVE CandidateSets(_, _, _, _)
CandidateSets(items, year, month, acc) ==
    IF items = <<>> THEN acc
    ELSE LET item == Head(items)
             expert == supportNameOf(item)
             candidate == supportCandidateOf(item)
         IN  CandidateSets(Tail(items), year, month,
                 IF ~PassesPeriod(item, year, month) THEN acc
                 ELSE IF expert \in DOMAIN acc
                      THEN [acc EXCEPT ![expert] = @ \cup {candidate}]
                      ELSE acc @@ (expert :> {candidate}))

SupportCandidates(items, year, month) == CandidateSets(items, year, month, <<>>)

supportCandidates == SupportCandidates(filtered, supportYear, supportMonth)

\* the option list of one row, app.js:495-497
RowCandidates(name) ==
    IF name \in DOMAIN supportCandidates THEN supportCandidates[name] ELSE {"Unknown"}

\* supportFilters, app.js:150-163: the years and the months on offer (the order
\* of the buttons and options is display only)
SupportFilterYears(items) ==
    {YearString(NewDateOrZero(items[i].receivedDateTime).y) :
        i \in {j \in 1..Len(items) : ~IsNaNDate(NewDateOrZero(items[j].receivedDateTime))}}

SupportFilterMonths(items) ==
    {Pad2(NewDateOrZero(items[i].receivedDateTime).m) :
        i \in {j \in 1..Len(items) : ~IsNaNDate(NewDateOrZero(items[j].receivedDateTime))}}

\* latestPeriod, app.js:165-177
RECURSIVE LatestDate(_, _)
LatestDate(items, latest) ==
    IF items = <<>> THEN latest
    ELSE LET date == NewDateOrZero(Head(items).receivedDateTime) IN
         LatestDate(Tail(items),
             IF IsNaNDate(date) THEN latest
             ELSE IF ~latest.ok \/ NumGt(GetTime(date), GetTime(latest)) THEN date
             ELSE latest)

LatestPeriod(items) ==
    LET latest == LatestDate(items, InvalidDate) IN
    IF ~latest.ok THEN [year |-> "All", month |-> "All"]
    ELSE [year |-> YearString(latest.y), month |-> Pad2(latest.m)]

\* the seeding effect, app.js:179-186, run after a render that left the support
\* filters at yr, mo over the given filtered items
SeededYear(yr, items) ==
    IF yr = "All" /\ LatestPeriod(items).year # "All" THEN LatestPeriod(items).year ELSE yr

SeededMonth(mo, items) ==
    IF mo = "All" /\ LatestPeriod(items).month # "All" THEN LatestPeriod(items).month ELSE mo

(***************************************************************************)
(* The response of /api/po-mails                                           *)
(***************************************************************************)
\* fetchPoMails sorts the mails before it maps them, part_001:195-199:
\* (a, b) => aDate - bDate
FetchComparator(a, b) == NumMinus(ReceivedTime(a), ReceivedTime(b))

\* the item lists a response may carry for the mails the mailbox holds
ResponseItems(mails) ==
    LET allEmails == WithIds(mails)
        n == Len(allEmails)
    IN  SortOutcomes(allEmails,
                     [i \in 1..n |-> [j \in 1..n |-> FetchComparator(allEmails[i], allEmails[j])]])

GeneratedAt == "2024-03-02"

(***************************************************************************)
(* The state after the first render: App, app.js:35-45, with the load of   *)
(* the mount effect (app.js:68-70) in flight                               *)
(***************************************************************************)
NoGroup == <<>>

\* extracted before the extraction stage has run on the body
Pending == [kind |-> "pending", fields |-> [f \in FieldNames |-> Null]]

InitApp ==
    /\ data = <<>>
    /\ meta = [count |-> 0, generatedAt |-> ""]
    /\ loading = TRUE
    /\ error = ""
    /\ query = ""
    /\ selectedId = ""
    /\ openMonths = {}
    /\ selectedGroupKey = NoGroup
    /\ selectedGroupItems = <<>>
    /\ supportYear = "All"
    /\ supportMonth = "All"
    /\ yearChosen = ""
    /\ monthChosen = ""
    /\ loads = [inFlight |-> 1, last |-> "none"]

\* the server before its first request: an empty collection, nothing sent
InitServer ==
    /\ collection = <<>>
    /\ fetched = <<>>
    /\ request = [outcome |-> "none", sent |-> <<>>]

(***************************************************************************)
(* Handlers.  Each action is one handler together with the render and the  *)
(* effect flush that follow it: the seeding effect (app.js:179-186) runs   *)
(* whenever latestPeriod, supportYear or supportMonth changed, and reads   *)
(* nothing else, so running it after every handler gives the same state.   *)
(***************************************************************************)
\* load, app.js:55-64: the response arrives with payload.items = items
LoadResolve(items) ==
    /\ loads.inFlight > 0
    /\ loads' = [inFlight |-> loads.inFlight - 1, last |-> "ok"]
    /\ data' = items
    /\ meta' = [count |-> Len(items), generatedAt |-> GeneratedAt]
    /\ loading' = FALSE
    /\ supportYear' = SeededYear(supportYear, Filtered(items, query))
    /\ supportMonth' = SeededMonth(supportMonth, Filtered(items, query))
    /\ UNCHANGED <<error, query, selectedId, openMonths, selectedGroupKey,
                   selectedGroupItems, yearChosen, monthChosen, body, extracted, universe, serverVars>>

Load ==
    /\ loads.inFlight > 0
    /\ \E mails \in SeqsUpTo(universe, MaxItems) :
          \E items \in ResponseItems(mails) : LoadResolve(items)

\* the Refresh button with its disabled attribute dropped
RefreshNeverDisabled == FALSE

\* <button onClick={load} disabled={loading}>, app.js:257
RefreshDisabled == loading

\* a click on Refresh: load up to its await, app.js:48-51
Refresh ==
    /\ ~RefreshDisabled
    /\ loading' = TRUE
    /\ error' = ""
    /\ loads' = [loads EXCEPT !.inFlight = @ + 1]
    /\ UNCHANGED <<data, meta, query, selectedId, openMonths, selectedGroupKey,
                   selectedGroupItems, supportYear, supportMonth, yearChosen, monthChosen,
                   body, extracted, universe, serverVars>>

\* err.message of what load may throw: the response is not ok (app.js:52-54),
\* fetch rejects, or the thrown value has no message
FailureMessages == {"Request failed: 500", "Failed to fetch", ""}

\* load, app.js:61-65: the fetch, the status test or response.json() threw
LoadReject(message) ==
    /\ loads.inFlight > 0
    /\ loads' = [inFlight |-> loads.inFlight - 1, last |-> "failed"]
    /\ error' = (IF message # "" THEN message ELSE "Failed to load data.")
    /\ loading' = FALSE
    /\ UNCHANGED <<data, meta, query, selectedId, openMonths, selectedGroupKey,
                   selectedGroupItems, supportYear, supportMonth, yearChosen, monthChosen,
                   body, extracted, universe, serverVars>>

LoadFails == \E message \in FailureMessages : LoadReject(message)

\* the search box, app.js:255
SetQuery(q) ==
    /\ q # query
    /\ query' = q
    /\ supportYear' = SeededYear(supportYear, Filtered(data, q))
    /\ supportMonth' = SeededMonth(supportMonth, Filtered(data, q))
    /\ UNCHANGED <<data, meta, loading, error, selectedId, openMonths, selectedGroupKey,
                   selectedGroupItems, yearChosen, monthChosen, body, extracted, universe, loads,
                   serverVars>>

\* toggleMonth, app.js:235-237.  openMonths is kept as the set of labels whose
\* entry is true: the render reads nothing but the truth of openMonths[label]
toggleMonth(label) ==
    /\ openMonths' = IF label \in openMonths THEN openMonths \ {label}
                     ELSE openMonths \cup {label}
    /\ UNCHANGED <<data, meta, loading, error, query, selectedId, selectedGroupKey,
                   selectedGroupItems, supportYear, supportMonth, yearChosen, monthChosen,
                   body, extracted, universe, loads,
                   serverVars>>

ToggleMonth ==
    LET g == grouped IN \E i \in 1..Len(g) : toggleMonth(g[i].monthLabel)

\* the click on a group, app.js:297-308; deduped is what latestPerCompany
\* returned for the group in this render (app.js:291)
ClickGroupOf(monthLabel, group, deduped) ==
    LET groupKey == <<monthLabel, group.key>> IN
    /\ monthLabel \in openMonths
    /\ IF selectedGroupKey = groupKey
       THEN /\ selectedId' = ""
            /\ selectedGroupItems' = <<>>
            /\ selectedGroupKey' = NoGroup
       ELSE /\ selectedGroupItems' = deduped
            /\ selectedId' = (IF deduped # <<>> THEN deduped[1].id ELSE "")
            /\ selectedGroupKey' = groupKey
    /\ UNCHANGED <<data, meta, loading, error, query, openMonths, supportYear,
                   supportMonth, yearChosen, monthChosen, body, extracted, universe, loads,
                   serverVars>>

ClickGroup ==
    LET g == grouped IN
    \E i \in 1..Len(g) :
        \E j \in 1..Len(g[i].groups) :
            \E deduped \in latestPerCompany(g[i].groups[j].items) :
                ClickGroupOf(g[i].monthLabel, g[i].groups[j], deduped)

\* the year tabs, app.js:438-458: "All Years" and one button per year on offer
ClickYear(year) ==
    /\ yearChosen' = year
    /\ supportYear' = SeededYear(year, filtered)
    /\ supportMonth' = SeededMonth(supportMonth, filtered)
    /\ UNCHANGED <<data, meta, loading, error, query, selectedId, openMonths,
                   selectedGroupKey, selectedGroupItems, monthChosen, body, extracted,
                   universe, loads,
                   serverVars>>

ClickAllYears == ClickYear("All")

ClickOneYear == \E year \in SupportFilterYears(filtered) : ClickYear(year)

\* the month select, app.js:460-471: "All Months" and one option per month on offer
SelectMonth(month) ==
    /\ month # supportMonth
    /\ monthChosen' = month
    /\ supportMonth' = SeededMonth(month, filtered)
    /\ supportYear' = SeededYear(supportYear, filtered)
    /\ UNCHANGED <<data, meta, loading, error, query, selectedId, openMonths,
                   selectedGroupKey, selectedGroupItems, yearChosen, body, extracted,
                   universe, loads,
                   serverVars>>

SelectAllMonths == SelectMonth("All")

SelectOneMonth == \E month \in SupportFilterMonths(filtered) : SelectMonth(month)

(***************************************************************************)
(* The grouping engine: one response, then month toggles and group clicks  *)
(***************************************************************************)
GroupUniverse ==
    {Mail("2024-03-01", "Al", "PO", "Acme", "", ""),
     Mail("2024-03-01", "", "PO", "Acme", "", ""),
     Mail("2023-12-05", "Al", "PO", "Acme", "", ""),
     Mail("", "", "", "Acme", "", "")}

InitGroup ==
    /\ InitApp
    /\ InitServer
    /\ universe = GroupUniverse
    /\ body = <<>>
    /\ extracted = Pending

NextGroup == Load \/ ToggleMonth \/ ClickGroup

SpecGroup == InitGroup /\ [][NextGroup]_vars

(***************************************************************************)
(* Company dedup: the same handlers over mails of one candidate            *)
(***************************************************************************)
DedupUniverse ==
    {Mail("2024-03-01", "Al", "PO", "Acme", "NY", ""),
     Mail("2024-03-02", "Al", "PO", "Acme", "NY", ""),
     Mail("2024-03-02", "Al", "PO", "", "NY", ""),
     Mail("2024-03-01", "Al", "PO", "", "", ""),
     Mail("", "Al", "PO", "Acme", "", ""),
     Mail("n/a", "Al", "PO", "Acme", "", "")}

InitDedup ==
    /\ InitApp
    /\ InitServer
    /\ universe = DedupUniverse
    /\ body = <<>>
    /\ extracted = Pending

SpecDedup == InitDedup /\ [][NextGroup]_vars

(***************************************************************************)
(* Properties of the grouping engine                                       *)
(***************************************************************************)
\* what a claim means by a record's timestamp: its day count when the text is a
\* date, the epoch when it is absent or malformed (spec 4.4, failure policy)
Parses(ts) == ts \in DOMAIN Calendar

ClaimTime(item) ==
    IF Parses(item.receivedDateTime) THEN GetTime(NewDate(item.receivedDateTime)).v ELSE 0

ClaimCompany(item) ==
    IF item.extracted.end_client # "" THEN item.extracted.end_client
    ELSE IF item.extracted.job_location # "" THEN item.extracted.job_location
    ELSE "Unknown Company"

ClaimCandidateKey(item) ==
    IF item.extracted.candidate_name # "" THEN item.extracted.candidate_name
    ELSE IF item.subject # "" THEN item.subject
    ELSE "Untitled"

\* the lists the render hands to latestPerCompany (app.js:291)
GroupItemLists ==
    LET g == grouped IN
    {g[i].groups[j].items : <<i, j>> \in {p \in (1..Len(g)) \X (1..MaxItems + 1) :
                                             p[2] <= Len(g[p[1]].groups)}}

DedupCorrect(items, out) ==
    /\ \A r \in Range(out) : r \in Range(items)
    /\ \A a, b \in 1..Len(out) : ClaimCompany(out[a]) = ClaimCompany(out[b]) => a = b
    /\ \A r \in Range(items) :
          \E a \in 1..Len(out) :
              /\ ClaimCompany(out[a]) = ClaimCompany(r)
              /\ ClaimTime(out[a]) >= ClaimTime(r)
    /\ \A a \in 1..(Len(out) - 1) : ClaimTime(out[a]) >= ClaimTime(out[a + 1])

\* C1: latestPerCompany returns one record per company key of its input, the
\* one with the greatest received timestamp, in non-increasing order of timestamp
C1_LatestPerCompany ==
    \A items \in GroupItemLists :
        \A out \in latestPerCompany(items) : DedupCorrect(items, out)

\* a clicked group of three records over two companies: one record was dropped
\* for a later one of its company, and the two kept are shown latest first
C1_Witness ==
    /\ selectedGroupKey # NoGroup
    /\ Len(data) = 3
    /\ Len(selectedGroupItems) = 2
    /\ \A r \in Range(data) : formatMonth(r.receivedDateTime) = selectedGroupKey[1]
    /\ \E r \in Range(data) :
          /\ r \notin Range(selectedGroupItems)
          /\ \E k \in Range(selectedGroupItems) :
                ClaimCompany(k) = ClaimCompany(r) /\ ClaimTime(k) > ClaimTime(r)
    /\ ClaimTime(selectedGroupItems[1]) > ClaimTime(selectedGroupItems[2])

\* C13: of two records of a group with the same company key and equal received
\* timestamps, the one met later is kept: the one met earlier is not in the list
\* latestPerCompany returns
C13_TiesKeepLater ==
    \A items \in GroupItemLists :
        \A out \in latestPerCompany(items) :
            \A i, j \in 1..Len(items) :
                (/\ i < j
                 /\ ClaimCompany(items[i]) = ClaimCompany(items[j])
                 /\ Parses(items[i].receivedDateTime)
                 /\ items[i].receivedDateTime = items[j].receivedDateTime)
                    => items[i] \notin Range(out)

(***************************************************************************)
(* latestPerCompany on its own: the function applied to a list of records  *)
(* of one candidate.  data holds the list handed in and selectedGroupItems *)
(* the list returned, as after setSelectedGroupItems(deduped), app.js:304  *)
(***************************************************************************)
DedupList ==
    /\ \E mails \in SeqsUpTo(universe, MaxItems) :
          /\ data' = WithIds(mails)
          /\ selectedGroupItems' \in latestPerCompany(WithIds(mails))
    /\ UNCHANGED <<meta, loading, error, query, selectedId, openMonths, selectedGroupKey,
                   supportYear, supportMonth, yearChosen, monthChosen, body, extracted,
                   universe, loads, serverVars>>

SpecCompany == InitDedup /\ [][DedupList]_vars

C7_MonthsDescending ==
    LET sorted == SortedMonthBuckets(filtered)
        g == grouped
    IN  /\ Len(g) = Len(sorted)
        /\ \A i \in 1..Len(g) : g[i].monthLabel = sorted[i].monthKey
        /\ \A i, j \in 1..Len(sorted) :
              i < j => SortKeyLess(sorted[j].sortKey, sorted[i].sortKey)
        /\ \A i \in 1..Len(sorted) :
              sorted[i].sortKey = <<0, 0>> => i = Len(sorted)

\* three buckets, an older year with a later month among them, and the unknown one
C7_Witness ==
    LET sorted == SortedMonthBuckets(filtered) IN
    /\ ~loading
    /\ Len(sorted) = 3
    /\ sorted[3].sortKey = <<0, 0>>
    /\ sorted[1].sortKey[1] > sorted[2].sortKey[1]
    /\ sorted[1].sortKey[2] < sorted[2].sortKey[2]
    /\ formatMonth(data[1].receivedDateTime) = sorted[3].monthKey

\* C8: a record whose timestamp does not parse is in the "Unknown Month"
\* bucket, which carries key "0000-00"; a record whose timestamp parses is in
\* the bucket labelled and keyed with that timestamp's year and month
C8_BucketOfRecord ==
    LET sorted == SortedMonthBuckets(filtered) IN
    \A r \in Range(filtered) :
        \E i \in 1..Len(sorted) :
            /\ r \in Range(sorted[i].items)
            /\ \A k \in 1..Len(sorted) : r \in Range(sorted[k].items) => k = i
            /\ IF Parses(r.receivedDateTime)
               THEN /\ sorted[i].monthKey = <<MonthName(Calendar[r.receivedDateTime][2]),
                                              Calendar[r.receivedDateTime][1]>>
                    /\ sorted[i].sortKey = <<Calendar[r.receivedDateTime][1],
                                             Calendar[r.receivedDateTime][2]>>
               ELSE /\ sorted[i].monthKey = <<"Unknown Month", 0>>
                    /\ sorted[i].sortKey = <<0, 0>>

\* a record without a timestamp leads the unknown bucket, a malformed one
\* follows it, and a dated record has a bucket of its own
C8_Witness ==
    LET sorted == SortedMonthBuckets(filtered) IN
    /\ ~loading
    /\ Len(sorted) = 2
    /\ Len(sorted[2].items) = 2
    /\ sorted[2].items[1].receivedDateTime = ""
    /\ sorted[2].items[2].receivedDateTime = "n/a"
    /\ Parses(sorted[1].items[1].receivedDateTime)

\* C9: in each month bucket the groups partition the bucket's records by
\* candidate key, in first-seen order of the keys, each group in input order
C9_GroupsPartition ==
    LET sorted == SortedMonthBuckets(filtered)
        g == grouped
    IN  \A i \in 1..Len(g) :
            LET items == sorted[i].items
                groups == g[i].groups
                FirstAt(key) == CHOOSE n \in 1..Len(items) :
                                    /\ ClaimCandidateKey(items[n]) = key
                                    /\ \A m \in 1..(n - 1) : ClaimCandidateKey(items[m]) # key
            IN  /\ \A r \in Range(items) :
                      \E j \in 1..Len(groups) :
                          /\ groups[j].key = ClaimCandidateKey(r)
                          /\ \A k \in 1..Len(groups) :
                                r \in Range(groups[k].items) <=> k = j
                /\ \A j \in 1..Len(groups) :
                      /\ groups[j].items # <<>>
                      /\ groups[j].items =
                            SelectSeq(items, LAMBDA r : ClaimCandidateKey(r) = groups[j].key)
                /\ \A j, k \in 1..Len(groups) :
                      j < k => FirstAt(groups[j].key) < FirstAt(groups[k].key)

\* one bucket of three records: a named candidate, a record known by its
\* subject only, and the named candidate again
C9_Witness ==
    LET g == grouped IN
    /\ ~loading
    /\ Len(g) = 1
    /\ Len(g[1].groups) = 2
    /\ Len(g[1].groups[1].items) = 2
    /\ g[1].groups[1].items = <<data[1], data[3]>>
    /\ g[1].groups[2].key = "PO"
    /\ data[2].extracted.candidate_name = ""

\* the month comparator orders the buckets it is given consistently: no two
\* buckets of one render share a sort key
MonthComparatorConsistent ==
    LET entries == MonthBuckets(filtered, <<>>)
        n == Len(entries)
    IN  ConsistentComparator(entries,
            [i \in 1..n |-> [j \in 1..n |-> MonthComparator(entries[i], entries[j])]])

(***************************************************************************)
(* The support statistics: one response, then searches and filter choices  *)
(***************************************************************************)
SupportUniverse ==
    {Mail("2024-03-01", "Al", "PO", "", "", "Sue"),
     Mail("2024-03-02", "Bo", "PO", "", "", "Sue"),
     Mail("2024-02-10", "Al", "PO", "", "", "Tom"),
     Mail("", "Al", "PO", "", "", "Tom"),
     Mail("n/a", "", "PO", "", "", "")}

\* what the user types into the search box
Queries == {"", " AL "}

InitSupport ==
    /\ InitApp
    /\ InitServer
    /\ universe = SupportUniverse
    /\ body = <<>>
    /\ extracted = Pending

NextSupport ==
    \/ Load
    \/ \E q \in Queries : SetQuery(q)
    \/ ClickAllYears
    \/ ClickOneYear
    \/ SelectAllMonths
    \/ SelectOneMonth

SpecSupport == InitSupport /\ [][NextSupport]_vars

(***************************************************************************)
(* Properties of the support statistics                                    *)
(***************************************************************************)
ClaimSupportName(item) ==
    IF item.extracted.interview_support_by # "" THEN item.extracted.interview_support_by
    ELSE "Unknown"

ClaimCandidate(item) ==
    IF item.extracted.candidate_name # "" THEN item.extracted.candidate_name
    ELSE "Unknown"

\* the count shown for a name, 0 when the table has no row for it
CountShown(name) ==
    LET rows == supportCounts
        at == IndexOfKey([i \in 1..Len(rows) |-> rows[i].name], name)
    IN  IF at = 0 THEN 0 ELSE rows[at].count

\* C2: every record whose receivedDateTime does not parse, the empty string
\* included, is counted whatever the year and month filters are
C2_UnparseableCounted ==
    LET f == filtered
        unparsed == {i \in 1..Len(f) : ~Parses(f[i].receivedDateTime)}
    IN  \A i \in unparsed :
            /\ CountShown(ClaimSupportName(f[i])) >=
                  Cardinality({j \in unparsed : ClaimSupportName(f[j]) = ClaimSupportName(f[i])})
            /\ ClaimCandidate(f[i]) \in RowCandidates(ClaimSupportName(f[i]))

\* C3: a filter the user has set to "All" stays "All" until the user's next choice
C3_ExplicitAllKept ==
    /\ yearChosen = "All" => supportYear = "All"
    /\ monthChosen = "All" => supportMonth = "All"

\* the latest period as the claim defines it: the year and month of the greatest
\* timestamp among the records whose timestamp parses, All/All when none does
ClaimLatestPeriod(items) ==
    LET dated == {i \in 1..Len(items) : Parses(items[i].receivedDateTime)} IN
    IF dated = {} THEN [year |-> "All", month |-> "All"]
    ELSE LET top == CHOOSE i \in dated : \A j \in dated : ClaimTime(items[i]) >= ClaimTime(items[j])
         IN  [year |-> YearString(NewDate(items[top].receivedDateTime).y),
              month |-> Pad2(NewDate(items[top].receivedDateTime).m)]

\* C15: the latest period is that of the greatest parseable timestamp of the
\* filtered records, records without one do not contribute, and with no
\* parseable timestamp among the loaded records the filters stay "All" until the
\* user chooses
C15_LatestPeriod ==
    /\ LatestPeriod(filtered) = ClaimLatestPeriod(filtered)
    /\ (/\ \A r \in Range(data) : ~Parses(r.receivedDateTime)
        /\ yearChosen = ""
        /\ monthChosen = "") => (supportYear = "All" /\ supportMonth = "All")

\* C10: the table has one row per support name among the records that pass the
\* period test, with the number of those records, most frequent first, and
\* each row offers exactly the candidates of the records it counts
C10_SupportRows ==
    LET f == filtered
        rows == supportCounts
        passing == {i \in 1..Len(f) : PassesPeriod(f[i], supportYear, supportMonth)}
        Counted(name) == {i \in passing : ClaimSupportName(f[i]) = name}
    IN  /\ \A a, b \in 1..Len(rows) : rows[a].name = rows[b].name => a = b
        /\ {rows[a].name : a \in 1..Len(rows)} = {ClaimSupportName(f[i]) : i \in passing}
        /\ \A a \in 1..Len(rows) :
              /\ rows[a].count = Cardinality(Counted(rows[a].name))
              /\ RowCandidates(rows[a].name) =
                    {ClaimCandidate(f[i]) : i \in Counted(rows[a].name)}
        /\ \A a \in 1..(Len(rows) - 1) : rows[a].count >= rows[a + 1].count
        /\ \A n \in 0..Len(f) :
              n = Cardinality(passing) =>
                  \E cs \in [1..Len(rows) -> 0..Len(f)] :
                      /\ \A a \in 1..Len(rows) : cs[a] = rows[a].count
                      /\ n = Cardinality({<<a, k>> \in (1..Len(rows)) \X (1..Len(f)) : k <= cs[a]})

\* three records pass a seeded filter: the name met first has one record, the
\* name met second has two records of two candidates and leads the table
C10_Witness ==
    LET f == filtered
        rows == supportCounts
    IN  /\ ~loading
        /\ supportYear # "All"
        /\ Len(f) = 3
        /\ Len(rows) = 2
        /\ rows[1].count = 2
        /\ rows[2].count = 1
        /\ ClaimSupportName(f[1]) = rows[2].name
        /\ Cardinality(RowCandidates(rows[1].name)) = 2

(***************************************************************************)
(* The extraction stage of fetchPoMails (part_001:201-209): a mail body,   *)
(* then extracted: htmlToText(email.body?.content || "")                   *)
(***************************************************************************)
\* the longest list of fragments a mail body is put together from
MaxFragments == 3

\* the pieces mail bodies are put together from, each with its characters
BodyText ==
    ("Name of Candidate: Jane Doe" :>
        <<"N", "a", "m", "e", " ", "o", "f", " ", "C", "a", "n", "d", "i", "d", "a",
          "t", "e", ":", " ", "J", "a", "n", "e", " ", "D", "o", "e">>) @@
    (" SST" :>
        <<" ", "S", "S", "T">>) @@
    (" Location: USA" :>
        <<" ", "L", "o", "c", "a", "t", "i", "o", "n", ":", " ", "U", "S", "A">>) @@
    (" Location NY" :>
        <<" ", "L", "o", "c", "a", "t", "i", "o", "n", " ", "N", "Y">>) @@
    ("<p>" :>
        <<"<", "p", ">">>) @@
    ("&nbsp;" :>
        <<"&", "n", "b", "s", "p", ";">>) @@
    ("Personal Phone Number " :>
        <<"P", "e", "r", "s", "o", "n", "a", "l", " ", "P", "h", "o", "n", "e", " ",
          "N", "u", "m", "b", "e", "r", " ">>) @@
    ("Rate: $55.00/hr" :>
        <<"R", "a", "t", "e", ":", " ", "$", "5", "5", ".", "0", "0", "/", "h", "r">>) @@
    ("Email ID a@b.co" :>
        <<"E", "m", "a", "i", "l", " ", "I", "D", " ", "a", "@", "b", ".", "c", "o">>) @@
    ("abc" :>
        <<"a", "b", "c">>) @@
    ("Manager Zed " :>
        <<"M", "a", "n", "a", "g", "e", "r", " ", "Z", "e", "d", " ">>) @@
    ("Team Lead Yo " :>
        <<"T", "e", "a", "m", " ", "L", "e", "a", "d", " ", "Y", "o", " ">>) @@
    ("Interview Support Support by Al Team Lead Bo Manager Cy" :>
        <<"I", "n", "t", "e", "r", "v", "i", "e", "w", " ", "S", "u", "p", "p", "o",
          "r", "t", " ", "S", "u", "p", "p", "o", "r", "t", " ", "b", "y", " ", "A",
          "l", " ", "T", "e", "a", "m", " ", "L", "e", "a", "d", " ", "B", "o", " ",
          "M", "a", "n", "a", "g", "e", "r", " ", "C", "y">>) @@
    (" Marketing Application" :>
        <<" ", "M", "a", "r", "k", "e", "t", "i", "n", "g", " ", "A", "p", "p", "l",
          "i", "c", "a", "t", "i", "o", "n">>) @@
    (" Thanks" :>
        <<" ", "T", "h", "a", "n", "k", "s">>) @@
    ("Interview Support " :>
        <<"I", "n", "t", "e", "r", "v", "i", "e", "w", " ", "S", "u", "p", "p", "o",
          "r", "t", " ">>) @@
    ("Interview Support Support by Al" :>
        <<"I", "n", "t", "e", "r", "v", "i", "e", "w", " ", "S", "u", "p", "p", "o",
          "r", "t", " ", "S", "u", "p", "p", "o", "r", "t", " ", "b", "y", " ", "A",
          "l">>) @@
    (" Manager Ed" :>
        <<" ", "M", "a", "n", "a", "g", "e", "r", " ", "E", "d">>)

ExtractFragments ==
    {BodyText[k] : k \in
        {"Name of Candidate: Jane Doe", " SST", " Location: USA", " Location NY",
         "<p>", "&nbsp;", "Personal Phone Number ", "Rate: $55.00/hr",
         "Email ID a@b.co", "abc"}}

RECURSIVE Concat(_)
Concat(parts) == IF parts = <<>> THEN <<>> ELSE Head(parts) \o Concat(Tail(parts))

Bodies(fragments) == {Concat(parts) : parts \in SeqsUpTo(fragments, MaxFragments)}

\* email.body?.content || ""
ContentOrEmpty(content) == IF content = NullBody THEN <<>> ELSE content

MapEmail ==
    /\ extracted = Pending
    /\ extracted' = htmlToText(ContentOrEmpty(body))
    /\ UNCHANGED <<data, meta, loading, error, query, selectedId, openMonths,
                   selectedGroupKey, selectedGroupItems, supportYear, supportMonth,
                   yearChosen, monthChosen, body, universe, loads,
                   serverVars>>

InitExtract ==
    /\ InitApp
    /\ InitServer
    /\ universe = {}
    /\ body \in Bodies(ExtractFragments) \cup {NullBody}
    /\ extracted = Pending

SpecExtract == InitExtract /\ [][MapEmail]_vars

SectionFragments ==
    {BodyText[k] : k \in
        {"Manager Zed ", "Team Lead Yo ",
         "Interview Support Support by Al Team Lead Bo Manager Cy",
         " Marketing Application", " Thanks", "Interview Support ",
         "Interview Support Support by Al", " Manager Ed"}}

InitSection ==
    /\ InitApp
    /\ InitServer
    /\ universe = {}
    /\ body \in Bodies(SectionFragments) \cup {NullBody}
    /\ extracted = Pending

SpecSection == InitSection /\ [][MapEmail]_vars

(***************************************************************************)
(* Properties of the extraction stage                                      *)
(***************************************************************************)
\* a trimmed non-empty string, or the absent value
TrimmedOrAbsent(v) ==
    \/ v = Null
    \/ /\ v.some
       /\ v.s # <<>>
       /\ ~IsSpaceChar(v.s[1])
       /\ ~IsSpaceChar(v.s[Len(v.s)])

\* C4: for every body, the empty string and null included, the extraction
\* stage returns the record of the eleven fields, each of them a trimmed
\* non-empty string or the absent value
C4_CompleteRecord ==
    extracted # Pending =>
        /\ extracted.kind = "fields"
        /\ DOMAIN extracted.fields = FieldNames
        /\ \A f \in FieldNames : TrimmedOrAbsent(extracted.fields[f])

\* C5: extracting from "Name of Candidate: Jane Doe SST Location: USA" gives
\* candidate_name "Jane Doe" and location "USA"
C5_JaneDoeExample ==
    (/\ extracted # Pending
     /\ body = BodyText["Name of Candidate: Jane Doe"] \o BodyText[" SST"]
                  \o BodyText[" Location: USA"]) =>
        /\ extracted.kind = "fields"
        /\ extracted.fields.candidate_name = Str(<<"J", "a", "n", "e", " ", "D", "o", "e">>)
        /\ extracted.fields.location = Str(<<"U", "S", "A">>)

\* The span of the claim C6, found by its description: it starts at the first
\* character that is not a space after the leftmost "Interview Support",
\* optional white space, "Support by" that has such a character, and it ends
\* at the first following place where white space and "Marketing Application"
\* or "Thanks" come next, or at the end of the text.  labelAt is where the
\* "Interview Support" of the span begins.
ClaimSpan(text) ==
    LET n == Len(text)
        AllSpaces(a, b) == \A x \in a..b : IsSpaceChar(text[x])
        StartsOf(i) ==
            {s \in 1..n :
                /\ ~IsSpaceChar(text[s])
                /\ \E j \in (i + Len(Lit.InterviewSupport))..(s - Len(Lit.SupportBy)) :
                      /\ AllSpaces(i + Len(Lit.InterviewSupport), j - 1)
                      /\ LitAt(text, j, Lit.SupportBy)
                      /\ AllSpaces(j + Len(Lit.SupportBy), s - 1)}
        labels == {i \in 1..n : LitAt(text, i, Lit.InterviewSupport) /\ StartsOf(i) # {}}
        EndsAt(e) ==
            \/ e = n
            \/ \E k \in (e + 2)..n :
                  /\ AllSpaces(e + 1, k - 1)
                  /\ LitAt(text, k, Lit.MarketingApplication) \/ LitAt(text, k, Lit.Thanks)
    IN  IF labels = {} THEN [found |-> FALSE, labelAt |-> 0, from |-> 0, to |-> 0]
        ELSE LET i == CHOOSE a \in labels : \A b \in labels : a <= b
                 s == CHOOSE a \in StartsOf(i) : TRUE
                 e == CHOOSE a \in {x \in s..n : EndsAt(x)} :
                          \A b \in {x \in s..n : EndsAt(x)} : a <= b
             IN  [found |-> TRUE, labelAt |-> i, from |-> s, to |-> e]

SectionFields == {"interview_support_by", "team_lead", "manager"}

\* C6: interview_support_by, team_lead and manager are read from the span
\* only: without a span the three are absent, with one they are what the
\* three patterns find in the characters of the span, and they stay the same
\* when everything before the "Interview Support" of the span is taken away
C6_SectionOnly ==
    extracted.kind = "fields" =>
        LET text == StrippedText(body)
            span == ClaimSpan(text)
            inside == SubSeq(text, span.from, span.to)
            cut == extractPoDetails(SubSeq(text, span.labelAt, Len(text)))
        IN  IF ~span.found
            THEN \A f \in SectionFields : extracted.fields[f] = Null
            ELSE /\ extracted.fields.interview_support_by = SupportByOf(inside)
                 /\ extracted.fields.team_lead = TeamLeadOf(inside)
                 /\ extracted.fields.manager = ManagerIn(inside)
                 /\ \A f \in SectionFields : extracted.fields[f] = cut[f]

\* a body with a "Team Lead" and a "Manager" label before the span, and the
\* three fields read from the span
C6_Witness ==
    /\ extracted.kind = "fields"
    /\ LET text == StrippedText(body)
           span == ClaimSpan(text)
       IN  /\ span.found
           /\ \E i \in 1..(span.from - 1) : LitAt(text, i, Lit.Manager)
           /\ \E i \in 1..(span.from - 1) : LitAt(text, i, Lit.TeamLead)
    /\ extracted.fields.interview_support_by = Str(<<"A", "l">>)
    /\ extracted.fields.team_lead = Str(<<"B", "o">>)
    /\ extracted.fields.manager = Str(<<"C", "y">>)

(***************************************************************************)
(* The details panel and the reloads: loads that succeed or fail, Refresh, *)
(* the search box, month toggles and group clicks                          *)
(***************************************************************************)
PanelUniverse ==
    {Mail("2024-03-02", "", "PO", "Al", "", ""),
     Mail("2024-03-01", "", "PO", "Acme", "", "")}

InitPanel ==
    /\ InitApp
    /\ InitServer
    /\ universe = PanelUniverse
    /\ body = <<>>
    /\ extracted = Pending

NextPanel ==
    \/ Load
    \/ LoadFails
    \/ Refresh
    \/ \E q \in Queries : SetQuery(q)
    \/ ToggleMonth
    \/ ClickGroup

SpecPanel == InitPanel /\ [][NextPanel]_vars

\* the records the details panel shows, app.js:339-361: none without `selected`
\* (app.js:95), else selectedGroupItems, or [selected] when that list is empty
DetailCards ==
    LET at == IndexOfKey([i \in 1..Len(filtered) |-> filtered[i].id], selectedId) IN
    IF at = 0 THEN <<>>
    ELSE IF selectedGroupItems # <<>> THEN selectedGroupItems
    ELSE <<filtered[at]>>

\* C16: every record the details panel shows is a record of the current
\* filtered set
C16_PanelWithinFiltered ==
    \A r \in Range(DetailCards) : \E f \in Range(filtered) : f.id = r.id

\* C17: at most one load is in flight; a load that fails leaves data and meta as
\* they were, sets a non-empty error and ends with loading false; a load that
\* succeeds ends with an empty error and loading false
C17_LoadOutcome ==
    /\ [](loads.inFlight <= 1)
    /\ [][loads'.inFlight < loads.inFlight =>
            /\ ~loading'
            /\ loads'.last = "failed" => (data' = data /\ meta' = meta /\ error' # "")
            /\ loads'.last = "ok" => error' = ""]_vars

\* a reload that failed with a non-OK response after a load of two records: the
\* records are still there and the error is shown
C17_Witness ==
    /\ loads = [inFlight |-> 0, last |-> "failed"]
    /\ ~loading
    /\ error = "Request failed: 500"
    /\ Len(data) = 2
    /\ meta.count = 2

(***************************************************************************)
(* The query endpoint: GET /api/po-mails (server.js:11-27, part_000:3-19)  *)
(* runs fetchPoMails (part_001:177-214), which lists the mailbox, sorts    *)
(* and maps the mails, upserts them and returns them.  One action is one   *)
(* request, from its arrival to the response.                              *)
(*  - A mail of the listing is a record of the fields the map step reads;  *)
(*    a field the listing leaves out is "" (the map step reads each        *)
(*    through `x || ""`), and `from` is the emailAddress object or null.   *)
(*  - A document is a function from its field names to their values.       *)
(*  - An error is a record [data, statusText, message], "" where the       *)
(*    thrown value has no such part.                                       *)
(***************************************************************************)
\* the state of the viewer
clientVars == <<data, meta, loading, error, query, selectedId, openMonths,
                selectedGroupKey, selectedGroupItems, supportYear, supportMonth,
                yearChosen, monthChosen, body, extracted, universe, loads>>

\* `from` is a record [some, name, address]; some = FALSE is null
NullFrom == [some |-> FALSE, name |-> "", address |-> ""]

\* the versions of three messages the mailbox may list
Mailbox ==
    {[id |-> "m1", subject |-> "PO", from |-> NullFrom, receivedDateTime |-> "2024-03-01",
      bodyPreview |-> "", webLink |-> "w1", body |-> <<>>],
     [id |-> "m1", subject |-> "", from |-> [some |-> TRUE, name |-> "Al", address |-> ""],
      receivedDateTime |-> "2024-03-01", bodyPreview |-> "PO", webLink |-> "w2",
      body |-> BodyText["Email ID a@b.co"]],
     [id |-> "m2", subject |-> "PO", from |-> [some |-> TRUE, name |-> "", address |-> "a@b.co"],
      receivedDateTime |-> "2024-03-02", bodyPreview |-> "", webLink |-> "w1",
      body |-> BodyText["Email ID a@b.co"]],
     [id |-> "m2", subject |-> "PO", from |-> NullFrom, receivedDateTime |-> "",
      bodyPreview |-> "", webLink |-> "", body |-> NullBody],
     [id |-> "m3", subject |-> "", from |-> NullFrom, receivedDateTime |-> "2023-12-05",
      bodyPreview |-> "", webLink |-> "w1", body |-> <<>>]}

\* allEmails after the paging loop, part_001:182-193: a listing holds a
\* message once
Listings ==
    {l \in SeqsUpTo(Mailbox, MaxItems) : \A i, j \in 1..Len(l) : l[i].id = l[j].id => i = j}

\* part_001:195-209: the arrays `mapped` may be for allEmails
fetchPoMails(allEmails) ==
    {[i \in 1..Len(sorted) |->
        [id |-> sorted[i].id, subject |-> sorted[i].subject, from |-> sorted[i].from,
         receivedDateTime |-> sorted[i].receivedDateTime,
         bodyPreview |-> sorted[i].bodyPreview, webLink |-> sorted[i].webLink,
         extracted |-> htmlToText(ContentOrEmpty(sorted[i].body))]] :
     sorted \in SortOutcomes(allEmails,
                    [i \in 1..Len(allEmails) |-> [j \in 1..Len(allEmails) |->
                        FetchComparator(allEmails[i], allEmails[j])]])}

\* item.extracted?.field || ""
OrEmpty(v) == IF v.some /\ v.s # <<>> THEN v ELSE Str(<<>>)

pickStoredFields(item) ==
    [id |-> item.id,
     subject |-> item.subject,
     from |-> IF ~item.from.some THEN NullFrom
              ELSE [some |-> TRUE, name |-> item.from.name, address |-> item.from.address],
     receivedDateTime |-> item.receivedDateTime,
     bodyPreview |-> item.bodyPreview,
     extracted |-> [f \in FieldNames |-> OrEmpty(item.extracted.fields[f])]]

\* updateOne {filter: {id}, update: {$set: fields}, upsert: true}: $set writes
\* the fields it names into the first document the filter matches and leaves
\* that document's other fields; with no match a document of the filter's and
\* the update's fields is inserted
updateOne(coll, item) ==
    LET at == IndexOfKey([i \in 1..Len(coll) |-> coll[i].id], item.id) IN
    IF at = 0 THEN Append(coll, pickStoredFields(item))
    ELSE [coll EXCEPT ![at] = pickStoredFields(item) @@ coll[at]]

\* collection.bulkWrite(ops, {ordered: false}) where every operation succeeds.
\* The filters of one listing differ, so the order of the operations decides
\* nothing but the order of the inserted documents, which no query reads
RECURSIVE bulkWrite(_, _)
bulkWrite(coll, items) ==
    IF items = <<>> THEN coll
    ELSE bulkWrite(updateOne(coll, Head(items)), Tail(items))

\* the history of stored fetches after the items were written
Stored(history, items) ==
    [id \in DOMAIN history \cup {items[i].id : i \in 1..Len(items)} |->
        IF \E i \in 1..Len(items) : items[i].id = id
        THEN items[CHOOSE i \in 1..Len(items) : items[i].id = id]
        ELSE history[id]]

\* what axios.get, getCollection and bulkWrite may throw
Errors ==
    {[data |-> "denied", statusText |-> "Forbidden", message |-> "status 403"],
     [data |-> "", statusText |-> "Bad Gateway", message |-> "status 502"],
     [data |-> "", statusText |-> "", message |-> "ECONNREFUSED"],
     [data |-> "", statusText |-> "", message |-> ""]}

\* the message with its fallbacks dropped
DetailOfResponseData(err) == err.data

\* err?.response?.data || err?.response?.statusText || err?.message || String(err)
Detail(err) ==
    IF err.data # "" THEN err.data
    ELSE IF err.statusText # "" THEN err.statusText
    ELSE IF err.message # "" THEN err.message
    ELSE "Error"

\* the request whose listing and whose writes succeed: res.json({count, generatedAt, items})
HandlerOk ==
    /\ \E allEmails \in Listings :
          \E mapped \in fetchPoMails(allEmails) :
              /\ collection' = bulkWrite(collection, mapped)
              /\ fetched' = Stored(fetched, mapped)
              /\ request' = [outcome |-> "ok",
                             sent |-> <<[status |-> 200,
                                         body |-> [count |-> Len(mapped),
                                                   generatedAt |-> GeneratedAt,
                                                   items |-> mapped]]>>]
    /\ UNCHANGED clientVars

\* the request whose listing fails: axios.get throws, nothing is written
HandlerFetchFails ==
    /\ \E err \in Errors :
          request' = [outcome |-> "fetchFailed",
                      sent |-> <<[status |-> 500,
                                  body |-> [error |-> "Failed to fetch emails",
                                            detail |-> Detail(err)]]>>]
    /\ UNCHANGED <<clientVars, collection, fetched>>

\* the request whose persistence step fails: getCollection throws (nothing is
\* written) or bulkWrite throws after the operations at `written` were applied.
\* upsertPoMails returns before either when there are no items (part_001:165)
HandlerStoreFails ==
    /\ \E allEmails \in Listings \ {<<>>} :
          \E mapped \in fetchPoMails(allEmails) :
              \E written \in SUBSET (1..Len(mapped)) :
                  /\ collection' = bulkWrite(collection,
                                       SelectSeq(mapped, LAMBDA item :
                                           \E i \in written : mapped[i] = item))
                  /\ fetched' = Stored(fetched,
                                       SelectSeq(mapped, LAMBDA item :
                                           \E i \in written : mapped[i] = item))
    /\ \E err \in Errors :
          request' = [outcome |-> "storeFailed",
                      sent |-> <<[status |-> 500,
                                  body |-> [error |-> "Failed to fetch emails",
                                            detail |-> Detail(err)]]>>]
    /\ UNCHANGED clientVars

InitEndpoint ==
    /\ InitApp
    /\ InitServer
    /\ universe = {}
    /\ body = <<>>
    /\ extracted = Pending

NextServer == HandlerOk \/ HandlerFetchFails \/ HandlerStoreFails

SpecServer == InitEndpoint /\ [][NextServer]_vars

(***************************************************************************)
(* Properties of the endpoint                                              *)
(***************************************************************************)
\* the record of spec section 6 for a mapped item: every extracted field is a
\* string, the empty one where the extractor found nothing
ClaimRecord(item) ==
    [id |-> item.id, subject |-> item.subject, from |-> item.from,
     receivedDateTime |-> item.receivedDateTime, bodyPreview |-> item.bodyPreview,
     webLink |-> item.webLink,
     extracted |-> [f \in FieldNames |->
                       IF item.extracted.fields[f].some THEN item.extracted.fields[f]
                       ELSE Str(<<>>)]]

\* C11: the collection holds at most one document per message id, and the
\* document of an id is the whole record of the id's latest stored fetch, webLink
\* included
C11_StoredIsLatestRecord ==
    /\ \A i, j \in 1..Len(collection) : collection[i].id = collection[j].id => i = j
    /\ \A i \in 1..Len(collection) :
          /\ collection[i].id \in DOMAIN fetched
          /\ collection[i] = ClaimRecord(fetched[collection[i].id])

\* C12: a request gets exactly one response; it is 200 with count the number of
\* its items when the listing and the writes succeeded, and 500 with an error
\* summary, a detail and no items when either failed
C12_OneResponse ==
    request.outcome # "none" =>
        /\ Len(request.sent) = 1
        /\ IF request.outcome = "ok"
           THEN /\ request.sent[1].status = 200
                /\ DOMAIN request.sent[1].body = {"count", "generatedAt", "items"}
                /\ request.sent[1].body.count = Len(request.sent[1].body.items)
           ELSE /\ request.sent[1].status = 500
                /\ DOMAIN request.sent[1].body = {"error", "detail"}
                /\ request.sent[1].body.error # ""
                /\ request.sent[1].body.detail # ""

\* a request answered 500 whose bulk write had stored one of its two records,
\* the thrown value carrying nothing but its message
C12_Witness ==
    /\ request.outcome = "storeFailed"
    /\ Len(collection) = 1
    /\ request.sent[1].status = 500
    /\ request.sent[1].body.detail = "ECONNREFUSED"

====
